---- MODULE Spec2Model ----
(***************************************************************************)
(* State-machine model of the classifier router service:                   *)
(*   - KafkaService (kafka_service.py): initialize / start / stop /        *)
(*     cleanup, the polling loop, per-message processing and publishing;   *)
(*   - ClassifierRouter.classify_with_detectors (core/router.py).          *)
(* The service runs on one asyncio event loop: a task is interleaved with  *)
(* another only where it awaits, so every action below is the code between *)
(* two awaits. Signal handlers may run between any two steps.              *)
(***************************************************************************)
EXTENDS Integers, Sequences, FiniteSets, TLC

\* ---------------------------------------------------------------- bounds
MaxBatch == 2
MaxPolls == 2
MaxCalls == 3
MaxStopCalls == 1
MaxNames == 3
MaxDescriptors == 2
MaxResolves == 2
MaxOccurrences == 2

\* ------------------------------------------------------ program constants
\* settings.app.processing_timeout_seconds, in clock ticks
ProcessingTimeout == 1
\* settings.app.max_text_length, in characters
MaxTextLength == 1

\* how far the model's clock runs past the timeout
MaxElapsed == ProcessingTimeout + 1
\* LeaseHeaderDetector.detect: text[:500]
HeaderChars == 500
\* len("LEASE"), the keyword of the first lease pattern
KeywordLen == 5

Tasks == {"main", "stopper"}
DocIds == {"d1", "d2"}
NoValue == "None"

\* ----------------------------------------------------------- inbound data
\* A raw inbound payload: either bytes that do not decode into an envelope
\* with docId and text, or an envelope. The text is kept by its length and
\* by whether it is whitespace-only.
Malformed == [decodable |-> FALSE, docId |-> NoValue, len |-> 0, blank |-> TRUE]

Envelope(d, n, b) == [decodable |-> TRUE, docId |-> d, len |-> n, blank |-> b]

\* the payloads the inbound channel delivers in this model
Polled ==
    {Malformed, Envelope("d1", MaxTextLength + 1, FALSE), Envelope("d1", 1, TRUE)}
        \cup {Envelope(d, MaxTextLength, FALSE) : d \in DocIds}

NoMessage == [decodable |-> FALSE, docId |-> NoValue, len |-> 0, blank |-> FALSE]

NoOutput == [docId |-> NoValue, len |-> 0, blank |-> TRUE]

VARIABLES
    consumer,        \* self.consumer: "none" | "created" | "started" | "closed"
    producer,        \* self.producer: same
    processor,       \* self.processor: "none" | "created" | "ready"
    running,         \* self.running
    shutdown_event,  \* self._shutdown_event.is_set()
    handlers,        \* signal handlers installed
    pc,              \* position of each task
    ret,             \* the call of the main task that entered cleanup()
    lastCall,        \* the main task's current or last call and how it ended
    batchLen,        \* total_messages of message_batch (0: no batch in hand)
    idx,             \* position of the loop in the batch, in received order
    message,         \* the message at idx (read when the loop reaches it)
    out,             \* output_message of the message being handled
    elapsed,         \* ticks spent in the pending poll or classification
    polls,           \* number of getmany() calls issued
    calls,           \* number of calls the main task has made
    stops,           \* number of stop() calls
    \* observations of the latest batch, forgotten when the next batch
    \* arrives or start() unwinds
    published,       \* outbound records of the batch, in publish order
    handled,         \* positions of the batch handed to process_message
    returned,        \* positions of the batch whose process_message returned
    failed,          \* positions of the batch whose handling raised
    pendingBackoff,  \* a broker error was raised and no pause has followed
    connStops,       \* stop() calls issued on each connection
    startAttempts,   \* start() calls on each connection in this initialize()
    leaked,          \* a started connection lost its last reference
    initFailed,      \* an initialize() of this instance has raised
    \* ---- classify_with_detectors
    rpc,                  \* "idle" | "loop" | "returned" | "raised"
    text,                 \* the text argument
    detector_names,       \* the detector_names argument
    pos,                  \* position of the loop in detector_names
    detector_results,     \* Dict[str, DetectionResult]
    successful_detectors, \* Set[str]
    failed_detectors,     \* Dict[str, str]
    invocations,          \* what each attempted position did
    available,            \* names of factory.list_available_detectors()
    text_length,          \* text_length of the ClassificationResult returned
    \* ---- MessageProcessor.process_message
    ppc,                   \* "idle" | "called" | "classifying" | "mapping" |
                           \* "returned" | "raised"
    payload,               \* message_value
    output_type_mapping,   \* self._output_type_mapping, in insertion order
    classification_result, \* what router.classify returned
    output_by_type,        \* output_by_type of _create_output_message
    output_message,        \* the LLMRequestMessage returned
    pcalls,                \* calls made: parse attempts, router.classify
    \* ---- DetectorFactory
    fpc,               \* "idle" | "load_config" | "load_classes" | "loaded" |
                       \* "load_failed"
    source,            \* the configuration file at config_path
    config,            \* self._config.detectors
    detector_classes,  \* self._detector_classes
    lpos,              \* position of the loop of _load_detector_classes
    resolves,          \* the create_detector calls made and how each ended
    answer,            \* what the latest call of an accessor answered
    \* ---- DetectorStrategy.detect
    dpc,       \* "idle" | "called" | "returned" | "raised"
    dkind,     \* the class of the detector
    dtext,     \* the text argument
    dresult    \* the DetectionResult returned

svars == <<consumer, producer, processor, running, shutdown_event, handlers, pc,
           ret, lastCall, batchLen, idx, message, out, elapsed, polls, calls,
           stops, published, handled, returned, failed, pendingBackoff, connStops,
           startAttempts, leaked, initFailed>>

rvars == <<rpc, text, detector_names, pos, detector_results,
           successful_detectors, failed_detectors, invocations, available,
           text_length>>

pvars == <<ppc, payload, output_type_mapping, classification_result,
           output_by_type, output_message, pcalls>>

\* what the actions of each component leave alone
fvars == <<fpc, source, config, detector_classes, lpos, resolves, answer>>

dvars == <<dpc, dkind, dtext, dresult>>

offService == <<rvars, pvars, fvars, dvars>>
offRouter == <<svars, pvars, fvars, dvars>>
offProcess == <<svars, rvars, fvars, dvars>>
offFactory == <<svars, rvars, pvars, dvars>>
offDetect == <<svars, rvars, pvars, fvars>>

vars == <<svars, rvars, pvars, fvars, dvars>>

InitPcs == {"init_processor", "init_consumer_start", "init_producer_start"}
BatchPcs == {"message", "classifying", "publishing"}
AwaitPcs == {"polling", "classifying", "publishing", "backoff"}

\* The main task is suspended (at an await, or between two calls): only then
\* can the event loop run a step of another task.
main_suspended == pc["main"] \notin {"message", "loop_head"}

\* __init__
ServiceInit ==
    /\ consumer = "none"
    /\ producer = "none"
    /\ processor = "none"
    /\ running = FALSE
    /\ shutdown_event = FALSE
    /\ handlers = FALSE
    /\ pc = [t \in Tasks |-> "idle"]
    /\ ret = "none"
    /\ lastCall = "none"
    /\ batchLen = 0
    /\ idx = 0
    /\ message = NoMessage
    /\ out = NoOutput
    /\ elapsed = 0
    /\ polls = 0
    /\ calls = 0
    /\ stops = 0
    /\ published = <<>>
    /\ handled = {}
    /\ returned = {}
    /\ failed = {}
    /\ pendingBackoff = FALSE
    /\ connStops = [consumer |-> 0, producer |-> 0]
    /\ startAttempts = [consumer |-> 0, producer |-> 0]
    /\ leaked = FALSE
    /\ initFailed = FALSE

\* ------------------------------------------------------- router data
\* the names detector_config.json registers, and a name it does not
Registered == {"lease_header_detector", "jurisdiction_detector"}
RequestNames == Registered \cup {"nonexistent_detector"}
NameLists == UNION {[1..n -> RequestNames] : n \in 0..MaxNames}

\* text arguments: None, "", whitespace only, and a text with content
Text(p, n, b) == [present |-> p, len |-> n, blank |-> b]
RouterTexts ==
    {Text(FALSE, 0, TRUE), Text(TRUE, 0, TRUE), Text(TRUE, 2, TRUE),
     Text(TRUE, 2, FALSE)}

\* DetectionResult(detected, value)
DetectionResult(d, v) == [detected |-> d, value |-> v]
DetectionResults ==
    {DetectionResult(FALSE, NoValue), DetectionResult(TRUE, "lease"),
     DetectionResult(TRUE, "CA"), DetectionResult(TRUE, "")}

\* the elements of a list
Range(f) == {f[i] : i \in DOMAIN f}

\* a Python dict, as a function on its keys
EmptyDict == [k \in {} |-> NoValue]
Put(dict, k, v) == [x \in DOMAIN dict \cup {k} |-> IF x = k THEN v ELSE dict[x]]

\* no classify_with_detectors call is under way
RouterIdle ==
    /\ rpc = "idle"
    /\ text = Text(FALSE, 0, TRUE)
    /\ detector_names = <<>>
    /\ pos = 0
    /\ detector_results = EmptyDict
    /\ successful_detectors = {}
    /\ failed_detectors = EmptyDict
    /\ invocations = <<>>
    /\ available = <<>>
    /\ text_length = 0

\* ------------------------------------------------------ processor data
\* output types: the two the outbound envelope reads, and another one
OutputTypes == {"docType", "jurisdiction", "summary"}

\* a detector's entry of the cached mapping (name, output_type)
MappingEntry(n, ty) == [name |-> n, output_type |-> ty]

\* get_output_type_mapping(): a dict, so each name once, in the order of
\* the configuration
OutputTypeMappings ==
    {m \in UNION {[1..k -> [name : Registered, output_type : OutputTypes]] :
                     k \in 0..Cardinality(Registered)} :
        \A i, j \in DOMAIN m : m[i].name = m[j].name => i = j}

\* payloads handed to process_message
Payloads ==
    Polled \cup {Envelope("d2", 0, TRUE), Envelope("d2", MaxTextLength + 1, TRUE)}

NoResult == [detector_results |-> EmptyDict, successful_detectors |-> {},
             failed_detectors |-> EmptyDict]

NoRequest == [docId |-> NoValue, len |-> 0, blank |-> TRUE,
              docType |-> NoValue, jurisdictionCode |-> NoValue]

\* no process_message call is under way
ProcessIdle ==
    /\ ppc = "idle"
    /\ payload = NoMessage
    /\ output_type_mapping = <<>>
    /\ classification_result = NoResult
    /\ output_by_type = EmptyDict
    /\ output_message = NoRequest
    /\ pcalls = [parse |-> 0, classify |-> 0]

\* -------------------------------------------------------- factory data
\* the classes a class_path can name: the two detectors, the abstract base
\* class itself, and a class that is no DetectorStrategy
LeaseHeaderDetector ==
    [class |-> "LeaseHeaderDetector", strategy |-> TRUE, abstract |-> FALSE,
     name |-> "lease_header_detector"]
JurisdictionDetector ==
    [class |-> "JurisdictionDetector", strategy |-> TRUE, abstract |-> FALSE,
     name |-> "jurisdiction_detector"]
DetectorStrategy ==
    [class |-> "DetectorStrategy", strategy |-> TRUE, abstract |-> TRUE,
     name |-> NoValue]
BuiltinStr ==
    [class |-> "str", strategy |-> FALSE, abstract |-> FALSE, name |-> NoValue]

\* class_path values: four that name a class, a module that does not
\* exist, and a path without a dot
ClassPaths ==
    {"classifier_router.detector.lease_header.LeaseHeaderDetector",
     "classifier_router.detector.jurisdiction.JurisdictionDetector",
     "classifier_router.detector.base.DetectorStrategy",
     "builtins.str", "nonexistent.module.Class", "invalid_path_without_dots"}

\* DetectorConfig(name, class_path, ...)
DetectorConfig(n, cp) == [name |-> n, class_path |-> cp]
DetectorConfigs == {DetectorConfig(n, cp) : n \in Registered, cp \in ClassPaths}

\* the configuration file: missing, not JSON, JSON of another shape, or a
\* list of detector entries
ConfigSource(ex, js, sch, ds) ==
    [exists |-> ex, json |-> js, schema |-> sch, detectors |-> ds]
ConfigSources ==
    {ConfigSource(FALSE, FALSE, FALSE, <<>>), ConfigSource(TRUE, FALSE, FALSE, <<>>),
     ConfigSource(TRUE, TRUE, FALSE, <<>>)}
        \cup {ConfigSource(TRUE, TRUE, TRUE, ds) :
                 ds \in UNION {[1..k -> DetectorConfigs] : k \in 0..MaxDescriptors}}

\* no DetectorFactory is being built
\* no accessor has been called
NoAnswer == [call |-> NoValue, name |-> NoValue, outcome |-> NoValue,
             value |-> <<>>]

FactoryIdle ==
    /\ fpc = "idle"
    /\ source = ConfigSource(FALSE, FALSE, FALSE, <<>>)
    /\ config = <<>>
    /\ detector_classes = EmptyDict
    /\ lpos = 0
    /\ resolves = <<>>
    /\ answer = NoAnswer

\* ------------------------------------------------------- detector data
\* A text as the detectors see it: absent (None) or a string of `chars`
\* characters, with the places where the lease keyword stands as a word
\* start (and whether a word character follows it) and the places where a
\* pattern of a jurisdiction category matches.
DetectText(p, n, ls, js) == [present |-> p, chars |-> n, lease |-> ls, juris |-> js]

\* places in a long text: its start, the last place where the keyword
\* still fits the header, one place further, the first place outside the
\* header, and a place far outside
KeywordPlaces ==
    {0, HeaderChars - KeywordLen, HeaderChars - KeywordLen + 1, HeaderChars,
     HeaderChars + 100}

LeaseOccurrences == [at : KeywordPlaces, followed : {"boundary", "word"}]

\* occurrences that can stand in one text: they do not overlap
compatible(occs) ==
    \A a, b \in occs : a # b => (a.at + KeywordLen <= b.at \/ b.at + KeywordLen <= a.at)

\* jurisdiction categories in the order of _jurisdiction_patterns
Categories == <<"CA", "MA", "NY">>

JurisdictionMatches == [code : Range(Categories), at : {0, 300, HeaderChars + 100}]

\* None, "", a short text without any keyword, and the keyword alone
PlainTexts ==
    {DetectText(FALSE, 0, {}, {}), DetectText(TRUE, 0, {}, {}),
     DetectText(TRUE, 3, {}, {}),
     DetectText(TRUE, KeywordLen, {[at |-> 0, followed |-> "boundary"]}, {})}

LeaseTexts ==
    {DetectText(TRUE, 2 * HeaderChars, ls, {}) :
        ls \in {o \in SUBSET LeaseOccurrences :
                   Cardinality(o) <= MaxOccurrences /\ compatible(o)}}

JurisdictionTexts ==
    {DetectText(TRUE, 2 * HeaderChars, {}, js) :
        js \in {o \in SUBSET JurisdictionMatches :
                   /\ Cardinality(o) <= MaxOccurrences
                   /\ \A a, b \in o : a.at = b.at => a = b}}

NoDetection == DetectionResult(FALSE, NoValue)

\* no detect call is under way
DetectIdle ==
    /\ dpc = "idle"
    /\ dkind = NoValue
    /\ dtext = DetectText(FALSE, 0, {}, {})
    /\ dresult = NoDetection

Init == ServiceInit /\ RouterIdle /\ ProcessIdle /\ FactoryIdle /\ DetectIdle

\* ------------------------------------------------------ message pipeline
\* MessageProcessor._parse_input_message: json.loads + TextExtractionMessage
parse_input_message(m) ==
    IF m.decodable
        THEN [ok |-> TRUE, docId |-> m.docId, len |-> m.len, blank |-> m.blank]
        ELSE [ok |-> FALSE, docId |-> NoValue, len |-> 0, blank |-> TRUE]

\* a size check that also rejects a text of the maximum length
exceeds_max_text_length_inclusive(input) == input.len >= MaxTextLength

\* process_message, "Validate text length"
exceeds_max_text_length(input) == input.len > MaxTextLength

\* a classify that rejects the empty text only
classify_rejects_empty_only(input) == input.len = 0

\* ClassifierRouter.classify: "if not text or not text.strip()"
classify_rejects(input) == input.len = 0 \/ input.blank

\* MessageProcessor._create_output_message: docId and text are copied
create_output_message(input) ==
    [docId |-> input.docId, len |-> input.len, blank |-> input.blank]

\* process_message up to its first await: "raise" or "dispatch"
process_message_begin(m, proc) ==
    LET input == parse_input_message(m)
    IN  IF ~input.ok THEN "raise"
        ELSE IF exceeds_max_text_length(input) THEN "raise"
        ELSE IF proc # "ready" THEN "raise"
        ELSE "dispatch"

\* a publish that sends no key
message_key_dropped(output) == NoValue

\* _produce_message: key=output_message.docId.encode("utf-8")
message_key(output) == output.docId

\* a batch loop that begins with the newest message
newest_message_first(n) == n

\* the for loops of _process_message_batch begin with the first message
first_message(n) == 1

\* the for loops of _process_message_batch: the message after position i
next_message(i, n) ==
    IF i < n THEN [pc |-> "message", idx |-> i + 1]
             ELSE [pc |-> "loop_head", idx |-> 0]

\* a batch handler that submits the failed message again
on_message_failure_retry(i, n) == [pc |-> "message", idx |-> i]

\* a batch handler that gives up the batch at the first failure
on_message_failure_abort(i, n) == [pc |-> "loop_head", idx |-> 0]

\* the except clause of _process_message_batch: log, continue
on_message_failure(i, n) == next_message(i, n)

\* a loop that tests self.running alone
loop_condition_running_only(run, shut) == run

\* the while condition of start()
loop_condition(run, shut) == run /\ ~shut

\* ------------------------------------------------------------- cleanup()
call_outcome(r) ==
    CASE r = "initialize" -> "initialize_failed"
      [] r = "start" -> "start_returned"
      [] OTHER -> "cleanup_returned"

\* cleanup() returns (or its except clause has logged the error) in task t
cleanup_return(t, r) ==
    /\ pc' = [pc EXCEPT ![t] = "idle"]
    /\ ret' = IF t = "main" THEN "none" ELSE ret
    /\ lastCall' = IF t = "main" THEN call_outcome(r) ELSE lastCall
    /\ initFailed' = (initFailed \/ (t = "main" /\ r = "initialize"))

\* cleanup() from "if self.producer:" to its next await or its return
cleanup_producer(t, r, prod) ==
    IF prod # "none"
        THEN /\ pc' = [pc EXCEPT ![t] = "producer_stop"]
             /\ ret' = IF t = "main" THEN r ELSE ret
             /\ lastCall' = lastCall
             /\ initFailed' = initFailed
             /\ connStops' = [connStops EXCEPT !.producer = @ + 1]
        ELSE /\ cleanup_return(t, r)
             /\ connStops' = connStops

\* cleanup() from its entry to its next await or its return
cleanup(t, r, cons, prod) ==
    IF cons # "none"
        THEN /\ pc' = [pc EXCEPT ![t] = "consumer_stop"]
             /\ ret' = IF t = "main" THEN r ELSE ret
             /\ lastCall' = lastCall
             /\ initFailed' = initFailed
             /\ connStops' = [connStops EXCEPT !.consumer = @ + 1]
        ELSE cleanup_producer(t, r, prod)

task_ret(t) == IF t = "main" THEN ret ELSE "stop"

\* what a stop() that raised leaves of the connection
after_failed_stop(c) == IF c = "none" THEN {"none"} ELSE {c, "closed"}

\* "await self.consumer.stop()" has ended in task t
consumer_stop_done(t) ==
    /\ pc[t] = "consumer_stop"
    /\ t = "main" \/ main_suspended
    /\ \/ /\ consumer' = "none"
          /\ cleanup_producer(t, task_ret(t), producer)
       \/ /\ consumer' \in after_failed_stop(consumer)
          /\ cleanup_return(t, task_ret(t))
          /\ connStops' = connStops
    /\ UNCHANGED <<producer, processor, running, shutdown_event, handlers,
                   batchLen, message, idx, out, elapsed, polls, calls, stops,
                   published, handled, returned, failed, pendingBackoff,
                   startAttempts, leaked, offService>>

\* "await self.producer.stop()" has ended in task t
producer_stop_done(t) ==
    /\ pc[t] = "producer_stop"
    /\ t = "main" \/ main_suspended
    /\ \/ producer' = "none"
       \/ producer' \in after_failed_stop(producer)
    /\ cleanup_return(t, task_ret(t))
    /\ UNCHANGED <<consumer, processor, running, shutdown_event, handlers,
                   batchLen, message, idx, out, elapsed, polls, calls, stops,
                   published, handled, returned, failed, pendingBackoff,
                   connStops, startAttempts, leaked, offService>>

\* the owner calls cleanup() (main.py, finally)
cleanup_call ==
    /\ pc["main"] = "idle"
    /\ calls < MaxCalls
    /\ calls' = calls + 1
    /\ cleanup("main", "cleanup", consumer, producer)
    /\ UNCHANGED <<consumer, producer, processor, running, shutdown_event,
                   handlers, batchLen, message, idx, out, elapsed, polls,
                   stops, published, handled, returned, failed, pendingBackoff,
                   startAttempts, leaked, offService>>

\* ----------------------------------------------------------- initialize()
\* initialize() is called: self.processor = MessageProcessor()
initialize_call ==
    /\ pc["main"] = "idle"
    /\ pc["stopper"] = "idle"
    /\ calls < MaxCalls
    /\ calls' = calls + 1
    /\ processor' = "created"
    /\ pc' = [pc EXCEPT !["main"] = "init_processor"]
    /\ lastCall' = "initialize"
    /\ startAttempts' = [consumer |-> 0, producer |-> 0]
    /\ UNCHANGED <<consumer, producer, running, shutdown_event, handlers, ret,
                   batchLen, message, idx, out, elapsed, polls, stops,
                   published, handled, returned, failed, pendingBackoff,
                   connStops, leaked, initFailed,
                   offService>>

\* "await self.processor.initialize()", then both clients are constructed
initialize_processor ==
    /\ pc["main"] = "init_processor"
    /\ \/ /\ processor' = "ready"
          /\ consumer' = "created"
          /\ producer' = "created"
          /\ leaked' = (leaked \/ consumer = "started" \/ producer = "started")
          /\ pc' = [pc EXCEPT !["main"] = "init_consumer_start"]
          /\ UNCHANGED <<ret, lastCall, connStops, initFailed>>
       \/ /\ cleanup("main", "initialize", consumer, producer)
          /\ UNCHANGED <<processor, consumer, producer, leaked>>
    /\ UNCHANGED <<running, shutdown_event, handlers, batchLen, message, idx,
                   out, elapsed, polls, calls, stops, published, handled,
                   returned, failed, pendingBackoff, startAttempts, offService>>

\* "await self.consumer.start()"
initialize_consumer_start ==
    /\ pc["main"] = "init_consumer_start"
    /\ startAttempts' = [startAttempts EXCEPT !.consumer = @ + 1]
    /\ \/ /\ consumer' = "started"
          /\ pc' = [pc EXCEPT !["main"] = "init_producer_start"]
          /\ UNCHANGED <<ret, lastCall, connStops, initFailed>>
       \/ /\ cleanup("main", "initialize", consumer, producer)
          /\ UNCHANGED consumer
    /\ UNCHANGED <<producer, processor, running, shutdown_event, handlers,
                   batchLen, message, idx, out, elapsed, polls, calls, stops,
                   published, handled, returned, failed, pendingBackoff,
                   leaked, offService>>

\* "await self.producer.start()"
initialize_producer_start ==
    /\ pc["main"] = "init_producer_start"
    /\ startAttempts' = [startAttempts EXCEPT !.producer = @ + 1]
    /\ \/ /\ producer' = "started"
          /\ pc' = [pc EXCEPT !["main"] = "idle"]
          /\ lastCall' = "initialize_ok"
          /\ UNCHANGED <<ret, connStops, initFailed>>
       \/ /\ cleanup("main", "initialize", consumer, producer)
          /\ UNCHANGED producer
    /\ UNCHANGED <<consumer, processor, running, shutdown_event, handlers,
                   batchLen, message, idx, out, elapsed, polls, calls, stops,
                   published, handled, returned, failed, pendingBackoff,
                   leaked, offService>>

\* ----------------------------------------------------------------- start()
\* a start() that re-arms the service: the event is cleared
event_after_start_cleared(shut) == FALSE

\* start() never clears self._shutdown_event
event_after_start(shut) == shut

\* start() is called: the initialization check, self.running = True, the
\* signal handlers
start_call ==
    /\ pc["main"] = "idle"
    /\ calls < MaxCalls
    /\ calls' = calls + 1
    /\ shutdown_event' = event_after_start(shutdown_event)
    /\ IF consumer = "none" \/ producer = "none" \/ processor = "none"
          THEN /\ lastCall' = "start_rejected"
               /\ UNCHANGED <<running, handlers, pc>>
          ELSE /\ lastCall' = "start"
               /\ running' = TRUE
               /\ handlers' = TRUE
               /\ pc' = [pc EXCEPT !["main"] = "loop_head"]
    /\ UNCHANGED <<consumer, producer, processor, ret,
                   batchLen, message, idx, out, elapsed, polls, stops,
                   published, handled, returned, failed, pendingBackoff,
                   connStops, startAttempts, leaked, initFailed,
                   offService>>

\* the while condition holds: getmany() is issued under wait_for
poll_issue ==
    /\ pc["main"] = "loop_head"
    /\ loop_condition(running, shutdown_event)
    /\ polls < MaxPolls
    /\ polls' = polls + 1
    /\ elapsed' = 0
    /\ pc' = [pc EXCEPT !["main"] = "polling"]
    /\ UNCHANGED <<consumer, producer, processor, running, shutdown_event,
                   handlers, ret, lastCall, batchLen, message, idx, out, calls,
                   stops, published, handled, returned, failed, pendingBackoff,
                   connStops, startAttempts, leaked, initFailed,
                   offService>>

\* start() unwinds into its finally clause: the loop's locals are gone
leave_loop ==
    /\ batchLen' = 0
    /\ idx' = 0
    /\ message' = NoMessage
    /\ out' = NoOutput
    /\ elapsed' = 0
    /\ published' = <<>>
    /\ handled' = {}
    /\ returned' = {}
    /\ failed' = {}
    /\ pendingBackoff' = FALSE
    /\ cleanup("main", "start", consumer, producer)

\* the while condition fails: finally, cleanup()
loop_exit ==
    /\ pc["main"] = "loop_head"
    /\ ~loop_condition(running, shutdown_event)
    /\ leave_loop
    /\ UNCHANGED <<consumer, producer, processor, running, shutdown_event,
                   handlers, polls, calls, stops, startAttempts, leaked, offService>>

\* getmany() returns a non-empty batch: _process_message_batch begins
poll_batch ==
    /\ pc["main"] = "polling"
    /\ consumer = "started"
    /\ batchLen' \in 1..MaxBatch
    /\ idx' = first_message(batchLen')
    /\ message' \in Polled
    /\ handled' = {}
    /\ returned' = {}
    /\ failed' = {}
    /\ published' = <<>>
    /\ out' = NoOutput
    /\ pc' = [pc EXCEPT !["main"] = "message"]
    /\ UNCHANGED <<consumer, producer, processor, running, shutdown_event,
                   handlers, ret, lastCall, elapsed, polls, calls, stops,
                   pendingBackoff, connStops, startAttempts, leaked, initFailed,
                   offService>>

\* getmany() returns nothing, or wait_for raises asyncio.TimeoutError:
\* continue
poll_empty ==
    /\ pc["main"] = "polling"
    /\ consumer = "started" \/ elapsed = ProcessingTimeout
    /\ pc' = [pc EXCEPT !["main"] = "loop_head"]
    /\ UNCHANGED <<consumer, producer, processor, running, shutdown_event,
                   handlers, ret, lastCall, batchLen, message, idx, out,
                   elapsed, polls, calls, stops, published, handled, returned,
                   failed, pendingBackoff, connStops, startAttempts, leaked,
                   initFailed,
                   offService>>

\* getmany() raises: "except KafkaError" or "except Exception", then
\* asyncio.sleep(5)
poll_error ==
    /\ pc["main"] = "polling"
    /\ \E kind \in {"KafkaError", "Exception"} :
          pendingBackoff' = (pendingBackoff \/ kind = "KafkaError")
    /\ pc' = [pc EXCEPT !["main"] = "backoff"]
    /\ UNCHANGED <<consumer, producer, processor, running, shutdown_event,
                   handlers, ret, lastCall, batchLen, message, idx, out,
                   elapsed, polls, calls, stops, published, handled, returned,
                   failed, connStops, startAttempts, leaked, initFailed,
                   offService>>

\* asyncio.sleep(5) has ended: back to the while condition
backoff_done ==
    /\ pc["main"] = "backoff"
    /\ pendingBackoff' = FALSE
    /\ pc' = [pc EXCEPT !["main"] = "loop_head"]
    /\ UNCHANGED <<consumer, producer, processor, running, shutdown_event,
                   handlers, ret, lastCall, batchLen, message, idx, out,
                   elapsed, polls, calls, stops, published, handled, returned,
                   failed, connStops, startAttempts, leaked, initFailed,
                   offService>>

\* the loop moves on to nx: the next message of the batch, or the while
\* condition when the batch is done
advance(nx) ==
    /\ idx' = nx.idx
    /\ pc' = [pc EXCEPT !["main"] = nx.pc]
    /\ out' = NoOutput
    /\ IF nx.pc = "message"
          THEN message' \in Polled /\ batchLen' = batchLen
          ELSE message' = NoMessage /\ batchLen' = 0

\* the message at idx raised: both except clauses log, the batch goes on
skip_message ==
    /\ failed' = failed \cup {idx}
    /\ advance(on_message_failure(idx, batchLen))

\* _process_single_message: process_message up to run_in_executor
process_single_message ==
    /\ pc["main"] = "message"
    /\ handled' = handled \cup {idx}
    /\ IF process_message_begin(message, processor) = "raise"
          THEN /\ skip_message
               /\ UNCHANGED elapsed
          ELSE /\ pc' = [pc EXCEPT !["main"] = "classifying"]
               /\ elapsed' = 0
               /\ UNCHANGED <<failed, out, idx, message, batchLen>>
    /\ UNCHANGED <<consumer, producer, processor, running, shutdown_event,
                   handlers, ret, lastCall, polls, calls, stops, published,
                   returned, pendingBackoff, connStops, startAttempts, leaked,
                   initFailed,
                   offService>>

\* run_in_executor(router.classify) has ended: process_message raises, or
\* it returns the output message and _produce_message calls send_and_wait
\* (an AttributeError when self.producer is None by then)
classification_done ==
    /\ pc["main"] = "classifying"
    /\ LET input == parse_input_message(message)
       IN  IF classify_rejects(input)
              THEN /\ skip_message
                   /\ returned' = returned
              ELSE IF producer = "none"
              THEN /\ skip_message
                   /\ returned' = returned \cup {idx}
              ELSE /\ out' = create_output_message(input)
                   /\ returned' = returned \cup {idx}
                   /\ pc' = [pc EXCEPT !["main"] = "publishing"]
                   /\ UNCHANGED <<failed, idx, message, batchLen>>
    /\ UNCHANGED <<consumer, producer, processor, running, shutdown_event,
                   handlers, ret, lastCall, elapsed, polls, calls, stops,
                   published, handled, pendingBackoff, connStops,
                   startAttempts, leaked, initFailed,
                   offService>>

\* send_and_wait has returned
send_ok ==
    /\ pc["main"] = "publishing"
    /\ producer \in {"started", "none"}
    /\ published' = Append(published, [poll |-> polls, idx |-> idx,
                                       msg |-> message,
                                       key |-> message_key(out)])
    /\ advance(next_message(idx, batchLen))
    /\ UNCHANGED <<consumer, producer, processor, running, shutdown_event,
                   handlers, ret, lastCall, elapsed, polls, calls, stops,
                   handled, returned, failed, pendingBackoff, connStops,
                   startAttempts, leaked, initFailed,
                   offService>>

\* send_and_wait has raised
send_error ==
    /\ pc["main"] = "publishing"
    /\ \E kind \in {"KafkaError", "Exception"} :
          pendingBackoff' = (pendingBackoff \/ kind = "KafkaError")
    /\ skip_message
    /\ UNCHANGED <<consumer, producer, processor, running, shutdown_event,
                   handlers, ret, lastCall, elapsed, polls, calls, stops,
                   published, handled, returned, connStops, startAttempts,
                   leaked, initFailed,
                   offService>>

\* time passes while the poll or the classification is pending; wait_for
\* bounds the poll only
tick ==
    /\ \/ pc["main"] = "polling" /\ elapsed < ProcessingTimeout
       \/ pc["main"] = "classifying" /\ elapsed < MaxElapsed
    /\ elapsed' = elapsed + 1
    /\ UNCHANGED <<consumer, producer, processor, running, shutdown_event,
                   handlers, pc, ret, lastCall, batchLen, message, idx, out,
                   polls, calls, stops, published, handled, returned, failed,
                   pendingBackoff, connStops, startAttempts, leaked, initFailed,
                   offService>>

\* the task running start() is cancelled at an await: CancelledError is no
\* Exception, so only the finally clause runs
start_cancelled ==
    /\ pc["main"] \in AwaitPcs
    /\ leave_loop
    /\ UNCHANGED <<consumer, producer, processor, running, shutdown_event,
                   handlers, polls, calls, stops, startAttempts, leaked, offService>>

\* ------------------------------------------------------ shutdown requests
\* signal_handler of _setup_signal_handlers
signal_handler ==
    /\ handlers
    /\ ~shutdown_event \/ running
    /\ running' = FALSE
    /\ shutdown_event' = TRUE
    /\ UNCHANGED <<consumer, producer, processor, handlers, pc, ret, lastCall,
                   batchLen, message, idx, out, elapsed, polls, calls, stops,
                   published, handled, returned, failed, pendingBackoff,
                   connStops, startAttempts, leaked, initFailed,
                   offService>>

\* stop(), called from another task while no initialize() is under way
stop ==
    /\ pc["stopper"] = "idle"
    /\ main_suspended
    /\ pc["main"] \notin InitPcs
    /\ stops < MaxStopCalls
    /\ stops' = stops + 1
    /\ running' = FALSE
    /\ shutdown_event' = TRUE
    /\ cleanup("stopper", "stop", consumer, producer)
    /\ UNCHANGED <<consumer, producer, processor, handlers, batchLen, message,
                   idx, out, elapsed, polls, calls, published, handled,
                   returned, failed, pendingBackoff, startAttempts, leaked,
                   offService>>

Next ==
    \/ initialize_call
    \/ initialize_processor
    \/ initialize_consumer_start
    \/ initialize_producer_start
    \/ start_call
    \/ poll_issue
    \/ loop_exit
    \/ poll_batch
    \/ poll_empty
    \/ poll_error
    \/ backoff_done
    \/ process_single_message
    \/ classification_done
    \/ send_ok
    \/ send_error
    \/ tick
    \/ start_cancelled
    \/ signal_handler
    \/ stop
    \/ cleanup_call
    \/ \E t \in Tasks : consumer_stop_done(t)
    \/ \E t \in Tasks : producer_stop_done(t)

Spec == Init /\ [][Next]_vars

\* The steps the event loop takes for the task that runs initialize(),
\* start() and cleanup(): each pending await ends, and the code after it
\* runs to the next await.  Calls from outside (initialize, start, stop,
\* cleanup, a signal, a cancellation) and the passing of time are not in it.
main_step ==
    \/ initialize_processor
    \/ initialize_consumer_start
    \/ initialize_producer_start
    \/ poll_issue
    \/ loop_exit
    \/ poll_batch
    \/ poll_empty
    \/ poll_error
    \/ backoff_done
    \/ process_single_message
    \/ classification_done
    \/ send_ok
    \/ send_error
    \/ consumer_stop_done("main")
    \/ producer_stop_done("main")

\* The steps the event loop takes for the task that runs stop().
stopper_step ==
    \/ consumer_stop_done("stopper")
    \/ producer_stop_done("stopper")

\* The service under an event loop that resumes every task whose await
\* has ended.
SpecLive ==
    /\ Init
    /\ [][Next]_vars
    /\ WF_vars(main_step)
    /\ WF_vars(stopper_step)

\* ------------------------------------------------ classify_with_detectors
\* the names of the configured detectors, in the order of the
\* configuration: the load does not reject a name that occurs twice
AvailableDetectors ==
    UNION {[1..k -> Registered] : k \in 0..MaxDescriptors}

\* classify_with_detectors(text, detector_names) or classify(text) has
\* been called
InitRouter ==
    /\ ServiceInit
    /\ ProcessIdle
    /\ FactoryIdle
    /\ DetectIdle
    /\ text \in RouterTexts
    /\ available \in AvailableDetectors
    /\ text_length = 0
    /\ \/ rpc = "called" /\ detector_names \in NameLists
       \/ rpc = "classify_called" /\ detector_names = <<>>
    /\ pos = 0
    /\ detector_results = EmptyDict
    /\ successful_detectors = {}
    /\ failed_detectors = EmptyDict
    /\ invocations = <<>>

\* an emptiness test without strip()
text_is_empty_no_strip(t) == ~t.present \/ t.len = 0

\* "if not text or not text.strip()"
text_is_empty(t) == ~t.present \/ t.len = 0 \/ t.blank

\* classify(text): ClassifierError for an empty text, else
\* classify_with_detectors(text, every configured name)
classify ==
    /\ rpc = "classify_called"
    /\ IF text_is_empty(text)
          THEN rpc' = "raised" /\ detector_names' = detector_names
          ELSE rpc' = "called" /\ detector_names' = available
    /\ UNCHANGED <<text, pos, detector_results, successful_detectors,
                   failed_detectors, invocations, available,
                   text_length, offRouter>>

\* input validation: ClassifierError for empty text or an empty name list
validate_input ==
    /\ rpc = "called"
    /\ IF text_is_empty(text) \/ detector_names = <<>>
          THEN rpc' = "raised" /\ pos' = pos
          ELSE rpc' = "loop" /\ pos' = 1
    /\ UNCHANGED <<text, detector_names, detector_results,
                   successful_detectors, failed_detectors, invocations, available,
                   text_length, offRouter>>

\* DetectorFactory.create_detector: ConfigError for a name not registered
create_detector_raises(name) == name \notin Range(available)

\* a loop that lets the detector's exception escape
on_detector_failure_reraise(failures, name, msg) ==
    [rpc |-> "raised", failed |-> failures]

\* the except clause of the loop: failed_detectors[name] = str(e), and the
\* loop goes on
on_detector_failure(failures, name, msg) ==
    [rpc |-> "loop", failed |-> Put(failures, name, msg)]

\* the loop body failed for the name at pos
detector_failed(kind, msg) ==
    LET h == on_detector_failure(failed_detectors, detector_names[pos], msg)
    IN  /\ rpc' = h.rpc
        /\ failed_detectors' = h.failed
        /\ invocations' = Append(invocations, kind)
        /\ pos' = pos + 1
        /\ UNCHANGED <<text, detector_names, detector_results,
                       successful_detectors, available,
                   text_length, offRouter>>

\* one pass of "for detector_name in detector_names": create_detector raises
unknown_detector ==
    /\ rpc = "loop"
    /\ pos <= Len(detector_names)
    /\ create_detector_raises(detector_names[pos])
    /\ detector_failed("unknown", "Unknown detector")

\* one pass of the loop: detect raises
detect_raises ==
    /\ rpc = "loop"
    /\ pos <= Len(detector_names)
    /\ ~create_detector_raises(detector_names[pos])
    /\ detector_failed("raise", "detect failed")

\* one pass of the loop: detect returns a DetectionResult
detect_returns ==
    /\ rpc = "loop"
    /\ pos <= Len(detector_names)
    /\ ~create_detector_raises(detector_names[pos])
    /\ \E r \in DetectionResults :
          detector_results' = Put(detector_results, detector_names[pos], r)
    /\ successful_detectors' = successful_detectors \cup {detector_names[pos]}
    /\ invocations' = Append(invocations, "ok")
    /\ pos' = pos + 1
    /\ UNCHANGED <<rpc, text, detector_names, failed_detectors, available,
                   text_length, offRouter>>

\* the loop is over: the ClassificationResult is built and returned
return_result ==
    /\ rpc = "loop"
    /\ pos > Len(detector_names)
    /\ rpc' = "returned"
    /\ text_length' = text.len
    /\ UNCHANGED <<text, detector_names, pos, detector_results,
                   successful_detectors, failed_detectors, invocations, available,
                   offRouter>>

\* ClassificationResult.has_detections:
\* any(result.detected for result in self.detector_results.values())
has_detections(results) == \E n \in DOMAIN results : results[n].detected

\* ClassificationResult.detected_values: the values of the names in
\* successful_detectors whose result has detected and a truthy value
detected_values(results, successful) ==
    LET kept == {n \in DOMAIN results :
                    /\ n \in successful
                    /\ results[n].detected
                    /\ results[n].value \notin {NoValue, ""}}
    IN  [n \in kept |-> results[n].value]

NextRouter ==
    \/ classify
    \/ validate_input
    \/ unknown_detector
    \/ detect_raises
    \/ detect_returns
    \/ return_result

SpecRouter == InitRouter /\ [][NextRouter]_vars

\* ---------------------------------------- MessageProcessor.process_message
\* process_message(message_value) has been called on an initialized
\* processor
InitProcess ==
    /\ ServiceInit
    /\ RouterIdle
    /\ FactoryIdle
    /\ DetectIdle
    /\ ppc = "called"
    /\ payload \in Payloads
    /\ output_type_mapping \in OutputTypeMappings
    /\ classification_result = NoResult
    /\ output_by_type = EmptyDict
    /\ output_message = NoRequest
    /\ pcalls = [parse |-> 0, classify |-> 0]

\* _parse_input_message, then "Validate text length"
parse_and_validate ==
    /\ ppc = "called"
    /\ pcalls' = [pcalls EXCEPT !.parse = @ + 1]
    /\ LET input == parse_input_message(payload)
       IN  ppc' = IF ~input.ok \/ exceeds_max_text_length(input)
                     THEN "raised"
                     ELSE "classifying"
    /\ UNCHANGED <<payload, output_type_mapping, classification_result,
                   output_by_type, output_message, offProcess>>

\* the names router.classify runs: every configured detector
MappingNames(mapping) == {mapping[i].name : i \in DOMAIN mapping}

\* the results classify_with_detectors can return over these names: each
\* name failed, or succeeded with a DetectionResult
ClassificationResults(names) ==
    {[detector_results |-> r,
      successful_detectors |-> DOMAIN r,
      failed_detectors |-> [n \in names \ DOMAIN r |-> "detect failed"]] :
        r \in UNION {[ok -> DetectionResults] : ok \in SUBSET names}}

\* router.classify(text) raises ClassifierError for a blank text
classify_raises ==
    /\ ppc = "classifying"
    /\ classify_rejects(parse_input_message(payload))
    /\ pcalls' = [pcalls EXCEPT !.classify = @ + 1]
    /\ ppc' = "raised"
    /\ UNCHANGED <<payload, output_type_mapping, classification_result,
                   output_by_type, output_message, offProcess>>

\* router.classify(text) returns a ClassificationResult
classify_returns ==
    /\ ppc = "classifying"
    /\ ~classify_rejects(parse_input_message(payload))
    /\ pcalls' = [pcalls EXCEPT !.classify = @ + 1]
    /\ classification_result' \in
          ClassificationResults(MappingNames(output_type_mapping))
    /\ ppc' = "mapping"
    /\ UNCHANGED <<payload, output_type_mapping, output_by_type,
                   output_message, offProcess>>

\* "result and result.detected and result.value"
has_value(result, name) ==
    /\ name \in DOMAIN result.detector_results
    /\ result.detector_results[name].detected
    /\ result.detector_results[name].value \notin {NoValue, ""}

\* ClassificationResult.get_output_by_type: one pass of the loop per entry
\* of detector_configs, each assigning output_mapping[output_type]
RECURSIVE get_output_by_type(_, _)
get_output_by_type(result, detector_configs) ==
    IF detector_configs = <<>> THEN EmptyDict
    ELSE LET n == Len(detector_configs)
             e == detector_configs[n]
             before == get_output_by_type(result, SubSeq(detector_configs, 1, n - 1))
         IN  IF e.name \in result.successful_detectors /\ has_value(result, e.name)
                THEN Put(before, e.output_type,
                         result.detector_results[e.name].value)
                ELSE Put(before, e.output_type, NoValue)

\* dict.get(key): None for a missing key
Get(dict, k) == IF k \in DOMAIN dict THEN dict[k] ELSE NoValue

\* an envelope whose two classification fields are exchanged
LLMRequestMessage_swapped(input, by_type) ==
    [docId |-> input.docId, len |-> input.len, blank |-> input.blank,
     docType |-> Get(by_type, "jurisdiction"),
     jurisdictionCode |-> Get(by_type, "docType")]

\* LLMRequestMessage(docId=..., text=..., docType=..., jurisdictionCode=...)
LLMRequestMessage(input, by_type) ==
    [docId |-> input.docId, len |-> input.len, blank |-> input.blank,
     docType |-> Get(by_type, "docType"),
     jurisdictionCode |-> Get(by_type, "jurisdiction")]

\* _create_output_message: ClassifierError for an empty cached mapping,
\* else the output message is built and process_message returns it
create_output ==
    /\ ppc = "mapping"
    /\ IF output_type_mapping = <<>>
          THEN /\ ppc' = "raised"
               /\ UNCHANGED <<output_by_type, output_message>>
          ELSE LET by_type == get_output_by_type(classification_result,
                                                 output_type_mapping)
               IN  /\ output_by_type' = by_type
                   /\ output_message' =
                         LLMRequestMessage(parse_input_message(payload), by_type)
                   /\ ppc' = "returned"
    /\ UNCHANGED <<payload, output_type_mapping, classification_result,
                   pcalls, offProcess>>

NextProcess ==
    \/ parse_and_validate
    \/ classify_raises
    \/ classify_returns
    \/ create_output

SpecProcess == InitProcess /\ [][NextProcess]_vars

\* -------------------------------------------------------- DetectorFactory
\* DetectorFactory(config_path) has been called
InitFactory ==
    /\ ServiceInit
    /\ RouterIdle
    /\ ProcessIdle
    /\ DetectIdle
    /\ fpc = "load_config"
    /\ source \in ConfigSources
    /\ config = <<>>
    /\ detector_classes = EmptyDict
    /\ lpos = 0
    /\ resolves = <<>>
    /\ answer = NoAnswer

\* _load_config: ConfigError for a missing file, invalid JSON or a failed
\* DetectorRegistryConfig validation
load_config ==
    /\ fpc = "load_config"
    /\ IF source.exists /\ source.json /\ source.schema
          THEN /\ config' = source.detectors
               /\ lpos' = 1
               /\ fpc' = "load_classes"
          ELSE /\ fpc' = "load_failed"
               /\ UNCHANGED <<config, lpos>>
    /\ UNCHANGED <<source, detector_classes, resolves, answer, offFactory>>

\* importlib.import_module + getattr: the class a class_path names
imported_class(class_path) ==
    CASE class_path = "classifier_router.detector.lease_header.LeaseHeaderDetector"
            -> LeaseHeaderDetector
      [] class_path = "classifier_router.detector.jurisdiction.JurisdictionDetector"
            -> JurisdictionDetector
      [] class_path = "classifier_router.detector.base.DetectorStrategy"
            -> DetectorStrategy
      [] OTHER -> BuiltinStr

\* _import_detector_class: ConfigError when rsplit, import_module or
\* getattr fails or when issubclass(detector_class, DetectorStrategy) is
\* false
import_detector_class(class_path) ==
    IF class_path \in {"nonexistent.module.Class", "invalid_path_without_dots"}
        THEN [ok |-> FALSE, class |-> BuiltinStr]
        ELSE [ok |-> imported_class(class_path).strategy,
              class |-> imported_class(class_path)]

\* one pass of the loop of _load_detector_classes
load_detector_class ==
    /\ fpc = "load_classes"
    /\ lpos <= Len(config)
    /\ LET imported == import_detector_class(config[lpos].class_path)
       IN  IF imported.ok
              THEN /\ detector_classes' =
                         Put(detector_classes, config[lpos].name, imported.class)
                   /\ lpos' = lpos + 1
                   /\ fpc' = fpc
              ELSE /\ fpc' = "load_failed"
                   /\ UNCHANGED <<detector_classes, lpos>>
    /\ UNCHANGED <<source, config, resolves, answer, offFactory>>

\* the loop is over: __init__ returns
load_done ==
    /\ fpc = "load_classes"
    /\ lpos > Len(config)
    /\ fpc' = "loaded"
    /\ UNCHANGED <<source, config, detector_classes, lpos, resolves, answer,
                   offFactory>>

\* a create_detector that hands each class out once
classes_after_create_evicted(classes, detector_name) ==
    [x \in DOMAIN classes \ {detector_name} |-> classes[x]]

\* create_detector reads self._detector_classes and assigns nothing
classes_after_create(classes, detector_name) == classes

\* create_detector(detector_name): ConfigError listing the known names for
\* an unknown name; else detector_class(), a new object, or the TypeError
\* of instantiating an abstract class
create_detector ==
    /\ fpc = "loaded"
    /\ Len(resolves) < MaxResolves
    /\ \E detector_name \in RequestNames :
        /\ detector_classes' =
              classes_after_create(detector_classes, detector_name)
        /\ resolves' = Append(resolves,
              IF detector_name \notin DOMAIN detector_classes
                 THEN [requested |-> detector_name, outcome |-> "ConfigError",
                       available |-> DOMAIN detector_classes,
                       object |-> 0, name |-> NoValue]
              ELSE IF detector_classes[detector_name].abstract
                 THEN [requested |-> detector_name, outcome |-> "TypeError",
                       available |-> {}, object |-> 0, name |-> NoValue]
                 ELSE [requested |-> detector_name, outcome |-> "instance",
                       available |-> {}, object |-> Len(resolves) + 1,
                       name |-> detector_classes[detector_name].name])
    /\ UNCHANGED <<fpc, source, config, lpos, answer, offFactory>>

\* list_available_detectors(): return self._config.detectors
list_available_detectors ==
    /\ fpc = "loaded"
    /\ answer' = [call |-> "list_available_detectors", name |-> NoValue,
                  outcome |-> "returned", value |-> config]
    /\ UNCHANGED <<fpc, source, config, detector_classes, lpos, resolves,
                   offFactory>>

\* the descriptors of self._config.detectors named detector_name, in order
configs_named(detectors, detector_name) ==
    SelectSeq(detectors, LAMBDA c : c.name = detector_name)

\* get_detector_config(detector_name): the first descriptor of that name,
\* or ConfigError
get_detector_config ==
    /\ fpc = "loaded"
    /\ \E detector_name \in RequestNames :
          LET found == configs_named(config, detector_name)
          IN  answer' = [call |-> "get_detector_config",
                         name |-> detector_name,
                         outcome |-> IF found = <<>> THEN "ConfigError"
                                                    ELSE "returned",
                         value |-> IF found = <<>> THEN <<>>
                                                  ELSE <<Head(found)>>]
    /\ UNCHANGED <<fpc, source, config, detector_classes, lpos, resolves,
                   offFactory>>

NextFactory ==
    \/ load_config
    \/ load_detector_class
    \/ load_done
    \/ create_detector
    \/ list_available_detectors
    \/ get_detector_config

SpecFactory == InitFactory /\ [][NextFactory]_vars

\* ------------------------------------------------ DetectorStrategy.detect
\* detect(text) has been called on a detector of one of the two classes
InitDetect ==
    /\ ServiceInit
    /\ RouterIdle
    /\ ProcessIdle
    /\ FactoryIdle
    /\ dpc = "called"
    /\ \/ dkind = "LeaseHeaderDetector" /\ dtext \in PlainTexts \cup LeaseTexts
       \/ dkind = "JurisdictionDetector" /\ dtext \in PlainTexts \cup JurisdictionTexts
    /\ dresult = NoDetection

\* a detect without the guard
not_text_unguarded(t) == FALSE

\* "if not text": None or ""
not_text(t) == ~t.present \/ t.chars = 0

\* a header that is the whole text
header_text_whole(t) == t

\* text[:500]: the keyword must end inside the window, and the end of the
\* window is the end of the string for the pattern's closing \b
header_text(t) ==
    [t EXCEPT
        !.chars = IF t.chars < HeaderChars THEN t.chars ELSE HeaderChars,
        !.lease = {[at |-> o.at,
                    followed |-> IF o.at + KeywordLen = HeaderChars
                                    THEN "boundary" ELSE o.followed] :
                      o \in {x \in t.lease : x.at + KeywordLen <= HeaderChars}}]

\* "for pattern in self._patterns: pattern.search(header_text)": a lease
\* pattern matches where the keyword stands as a whole word
lease_pattern_search(t) == \E o \in t.lease : o.followed = "boundary"

\* LeaseHeaderDetector.detect
lease_header_detect ==
    /\ dpc = "called"
    /\ dkind = "LeaseHeaderDetector"
    /\ IF not_text(dtext)
          THEN dpc' = "returned" /\ dresult' = NoDetection
       ELSE IF ~dtext.present
          THEN dpc' = "raised" /\ dresult' = dresult
       ELSE /\ dpc' = "returned"
            /\ dresult' = IF lease_pattern_search(header_text(dtext))
                             THEN DetectionResult(TRUE, "lease")
                             ELSE NoDetection
    /\ UNCHANGED <<dkind, dtext, offDetect>>

\* the category whose match stands first in the text
earliest_matching_category(t, categories) ==
    IF t.juris = {} THEN NoValue
    ELSE (CHOOSE m \in t.juris : \A o \in t.juris : m.at <= o.at).code

\* the loops over _jurisdiction_patterns.items() and each category's
\* patterns: the first category, in dict order, with a pattern that matches
first_matching_category(t, categories) ==
    LET matching == {i \in DOMAIN categories :
                        \E m \in t.juris : m.code = categories[i]}
    IN  IF matching = {} THEN NoValue
        ELSE categories[CHOOSE i \in matching : \A j \in matching : i <= j]

\* JurisdictionDetector.detect
jurisdiction_detect ==
    /\ dpc = "called"
    /\ dkind = "JurisdictionDetector"
    /\ IF not_text(dtext)
          THEN dpc' = "returned" /\ dresult' = NoDetection
       ELSE IF ~dtext.present
          THEN dpc' = "raised" /\ dresult' = dresult
       ELSE LET code == first_matching_category(dtext, Categories)
            IN  /\ dpc' = "returned"
                /\ dresult' = IF code # NoValue
                                 THEN DetectionResult(TRUE, code)
                                 ELSE NoDetection
    /\ UNCHANGED <<dkind, dtext, offDetect>>

NextDetect ==
    \/ lease_header_detect
    \/ jurisdiction_detect

SpecDetect == InitDetect /\ [][NextDetect]_vars

\* ================================================================= claims
Failures == {"unknown", "raise"}

\* C1: when handling a message of a batch raises (process_message or the
\* publish), the loop goes on with the very next message of the same batch,
\* or with the while condition when that was the last one; and a batch is
\* only ever finished with every one of its messages handed to
\* process_message.
C1_FailureSkipsOneMessage ==
    [][/\ (pc["main"] \in BatchPcs /\ idx \in failed' /\ idx \notin failed)
            => IF idx < batchLen
                  THEN /\ pc'["main"] = "message"
                       /\ idx' = idx + 1
                       /\ batchLen' = batchLen
                  ELSE pc'["main"] = "loop_head"
       /\ (pc["main"] \in BatchPcs /\ pc'["main"] = "loop_head")
            => handled' = 1..batchLen]_vars

\* C1 witness: a second poll is pending after a batch in which a message
\* failed and a later message was handled
C1_Witness ==
    /\ pc["main"] = "polling"
    /\ polls = 2
    /\ \E i \in failed : \E j \in handled : j > i

\* C2: every outcome classify_with_detectors returns has results.keys()
\* within the requested names, succeeded and failed disjoint, and succeeded
\* united with failed equal to the requested names.
C2_OutcomePartitionsNames ==
    rpc = "returned" =>
        /\ DOMAIN detector_results \subseteq Range(detector_names)
        /\ successful_detectors \cap DOMAIN failed_detectors = {}
        /\ successful_detectors \cup DOMAIN failed_detectors
              = Range(detector_names)

\* C3: every failure raised while resolving or running a requested detector
\* is recorded in failed under its name, every requested name is attempted,
\* and once the input validation has passed the call returns an outcome.
C3_DetectorFailureIsolated ==
    /\ \A i \in 1..Len(invocations) :
          invocations[i] \in Failures
              => detector_names[i] \in DOMAIN failed_detectors
    /\ rpc = "returned" => Len(invocations) = Len(detector_names)
    /\ rpc = "raised" => invocations = <<>>

\* C3 witness: an outcome was returned although a detector failed, and a
\* name requested after the failing one ran
C3_Witness ==
    /\ rpc = "returned"
    /\ \E i, j \in 1..Len(invocations) :
          i < j /\ invocations[i] \in Failures /\ invocations[j] = "ok"

\* C4: stop() issues no stop of a broker connection while a batch is being
\* processed.
C4_StopWaitsForBatch ==
    [][(connStops' # connStops /\ pc'["stopper"] # pc["stopper"])
          => pc["main"] \notin BatchPcs]_vars

\* C5: when start() returns or stop() completes, no connection the service
\* has opened is still open.
C5_ReleasedOnEveryExit ==
    [][(\/ lastCall = "start" /\ lastCall' = "start_returned"
        \/ stops' # stops /\ pc'["stopper"] = "idle"
        \/ pc["stopper"] # "idle" /\ pc'["stopper"] = "idle")
          => /\ consumer' # "started"
             /\ producer' # "started"
             /\ ~leaked']_vars

\* C6: every outbound record belongs to a message whose process_message
\* returned and whose handling did not fail (so it was decodable, within the
\* size limit and not blank), carries that message's docId as its key, and
\* is the only record of its message.
C6_PublishedOnlyAfterSuccess ==
    \A k \in 1..Len(published) :
        LET p == published[k]
        IN  /\ p.idx \in returned
            /\ p.idx \notin failed
            /\ p.msg.decodable
            /\ p.msg.len <= MaxTextLength
            /\ p.msg.len > 0 /\ ~p.msg.blank
            /\ p.key = p.msg.docId
            /\ \A j \in 1..Len(published) : published[j].idx = p.idx => j = k

\* C6 witness: one message of a batch failed and was not published, another
\* one was published
C6_Witness ==
    /\ failed # {}
    /\ published # <<>>
    /\ \A k \in 1..Len(published) : published[k].idx \notin failed

\* C7: no poll is issued while a broker error raised by a poll or by a
\* publish has not been followed by the backoff pause.
C7_BackoffBeforeNextPoll ==
    [][polls' # polls => ~pendingBackoff]_vars

\* C8: a classification never stays pending for longer than the
\* per-message processing timeout.
C8_ProcessingBounded ==
    pc["main"] = "classifying" => elapsed <= ProcessingTimeout

\* C9: once shutdown has been requested, no further poll is issued.
C9_NoPollAfterShutdown ==
    [][shutdown_event => polls' = polls]_vars

\* C9 witness: shutdown was requested while a batch is in flight
C9_Witness ==
    /\ shutdown_event
    /\ pc["main"] \in BatchPcs
    /\ polls >= 1

\* C10: when initialize() surfaces a failure, the service holds no open
\* broker connection, and each connection was started at most once.
C10_FailedInitializeHoldsNothing ==
    [][(lastCall = "initialize" /\ lastCall' = "initialize_failed")
          => /\ consumer' # "started"
             /\ producer' # "started"
             /\ startAttempts'.consumer <= 1
             /\ startAttempts'.producer <= 1]_vars

\* C11: FAILED is terminal. Once an initialize() of the instance has
\* raised, no later call brings it to the running loop: no getmany() is
\* issued, nothing is published, and no start() passes its check.
C11_FailedIsTerminal ==
    [][initFailed =>
          /\ polls' = polls
          /\ Len(published') <= Len(published)
          /\ lastCall' # "start"]_vars

\* the loop is polling or handling a batch
loop_at_work == pc["main"] \in BatchPcs \cup {"polling", "backoff"}

\* C12: STOPPED is terminal. Once shutdown has been requested (stop() or a
\* signal) and start() is no longer polling or handling a batch, no later
\* initialize(), start() or stop() makes the service poll or publish: the
\* shutdown request is never withdrawn and the loop is never at work again.
C12_StoppedIsTerminal ==
    [][(shutdown_event /\ ~loop_at_work) =>
          /\ polls' = polls
          /\ Len(published') <= Len(published)
          /\ shutdown_event'
          /\ ~loop_at_work']_vars

\* C12 witness: stop() has completed, and a later start() on freshly
\* started connections stands at its while condition.
C12_Witness ==
    /\ stops >= 1
    /\ pc["stopper"] = "idle"
    /\ shutdown_event
    /\ lastCall = "start"
    /\ pc["main"] = "loop_head"
    /\ running
    /\ consumer = "started"
    /\ producer = "started"
    /\ connStops.producer >= 1
    /\ calls = MaxCalls

\* C13: for every (detector name, output type) entry of the mapping, the
\* mapped field of that output type equals the detector's value when the
\* detector succeeded with detected = true and a non-empty value, and is
\* null otherwise.
C13_OutputFieldPerEntry ==
    ppc = "returned" =>
        \A i \in DOMAIN output_type_mapping :
            LET e == output_type_mapping[i]
                r == classification_result
                valued == /\ e.name \in r.successful_detectors
                          /\ e.name \in DOMAIN r.detector_results
                          /\ r.detector_results[e.name].detected
                          /\ r.detector_results[e.name].value \notin {NoValue, ""}
            IN  /\ e.output_type \in DOMAIN output_by_type
                /\ output_by_type[e.output_type] =
                      IF valued THEN r.detector_results[e.name].value
                                ELSE NoValue

\* the value v was produced by a succeeded detector of output type ty
produced_by_type(v, ty) ==
    \E i \in DOMAIN output_type_mapping :
        /\ output_type_mapping[i].output_type = ty
        /\ output_type_mapping[i].name \in
              classification_result.successful_detectors
        /\ classification_result.detector_results[
              output_type_mapping[i].name].value = v

\* C14: the envelope process_message returns carries the inbound docId and
\* text unchanged; docType is the mapped value of "docType" and
\* jurisdictionCode that of "jurisdiction", null when none was mapped, and
\* each non-null value comes from a detector of that output type, never
\* from a detector of another type.
C14_OutboundEnvelope ==
    ppc = "returned" =>
        /\ payload.decodable
        /\ output_message.docId = payload.docId
        /\ output_message.len = payload.len
        /\ output_message.blank = payload.blank
        /\ output_message.docType = Get(output_by_type, "docType")
        /\ output_message.jurisdictionCode = Get(output_by_type, "jurisdiction")
        /\ output_message.docType # NoValue =>
              produced_by_type(output_message.docType, "docType")
        /\ output_message.jurisdictionCode # NoValue =>
              produced_by_type(output_message.jurisdictionCode, "jurisdiction")

\* C14 witness: an envelope returned with a docType, no jurisdictionCode,
\* and a detector of another output type that detected a value.
C14_Witness ==
    /\ ppc = "returned"
    /\ output_message.docId = "d2"
    /\ output_message.docType = "lease"
    /\ output_message.jurisdictionCode = NoValue
    /\ produced_by_type("CA", "summary")

\* C15: a payload that does not decode into an envelope, or whose text is
\* longer than max_text_length, makes process_message raise after one
\* parse attempt and without a call to the router; a text of exactly
\* max_text_length passes the size check (the router is called).
C15_RejectedBeforeRouter ==
    /\ (ppc # "called" /\ (~payload.decodable \/ payload.len > MaxTextLength)) =>
          /\ ppc = "raised"
          /\ pcalls.classify = 0
          /\ pcalls.parse = 1
    /\ (ppc \notin {"called", "classifying"} /\ payload.decodable
          /\ payload.len = MaxTextLength) =>
          pcalls.classify = 1

\* C15 witness: an oversized text has been rejected, the router not called.
C15_Witness ==
    /\ ppc = "raised"
    /\ payload.decodable
    /\ payload.len = MaxTextLength + 1
    /\ pcalls = [parse |-> 1, classify |-> 0]

\* C16: classify_with_detectors raises when the text is None, empty or
\* whitespace-only or when the name list is empty, and classify raises for
\* such a text; in these cases no detector has been created or invoked.
C16_InvalidInputRejected ==
    (/\ rpc \notin {"called", "classify_called"}
     /\ \/ ~text.present
        \/ text.len = 0
        \/ text.blank
        \/ detector_names = <<>>) =>
        /\ rpc = "raised"
        /\ invocations = <<>>
        /\ detector_results = EmptyDict
        /\ successful_detectors = {}
        /\ failed_detectors = EmptyDict

\* C16 witness: a whitespace-only text with a non-empty name list has been
\* rejected.
C16_Witness ==
    /\ rpc = "raised"
    /\ text.present
    /\ text.len > 0
    /\ text.blank
    /\ detector_names # <<>>

\* the class_path names a concrete class that implements detect and name
implements_contract(class_path) ==
    class_path \in
        {"classifier_router.detector.lease_header.LeaseHeaderDetector",
         "classifier_router.detector.jurisdiction.JurisdictionDetector"}

\* the names the source declares
declared_names == {source.detectors[i].name : i \in DOMAIN source.detectors}

\* C17: the load fails (no factory is obtained) when the source is missing
\* or malformed or when the class_path of a descriptor at any position does
\* not resolve to a type implementing the strategy contract; such a failure
\* never waits for the first create_detector of the bad entry.
C17_LoadFailsFast ==
    /\ fpc = "loaded" =>
          /\ source.exists /\ source.json /\ source.schema
          /\ \A i \in DOMAIN source.detectors :
                implements_contract(source.detectors[i].class_path)
    /\ \A k \in DOMAIN resolves :
          resolves[k].requested \in declared_names =>
              resolves[k].outcome = "instance"

\* C18: the load fails when two descriptors of the source have the same
\* name: a loaded factory comes from a source with unique names.
C18_DuplicateNamesRejected ==
    fpc = "loaded" =>
        \A i, j \in DOMAIN source.detectors :
            source.detectors[i].name = source.detectors[j].name => i = j

\* C19: after a load from a source with unique names, the instance that
\* create_detector(d.name) returns reports the name d.name.
C19_ResolvedNameMatches ==
    (/\ fpc = "loaded"
     /\ \A i, j \in DOMAIN source.detectors :
           source.detectors[i].name = source.detectors[j].name => i = j) =>
        \A k \in DOMAIN resolves :
            resolves[k].outcome = "instance" =>
                resolves[k].name = resolves[k].requested

\* C20: after a load, create_detector returns an instance for every
\* declared name, a new object on each call; for an undeclared name it
\* raises ConfigError listing the known names; the registry stays as
\* loaded.
C20_ResolveContract ==
    fpc = "loaded" =>
        /\ DOMAIN detector_classes = declared_names
        /\ \A k \in DOMAIN resolves :
              IF resolves[k].requested \in declared_names
                 THEN resolves[k].outcome = "instance"
                 ELSE /\ resolves[k].outcome = "ConfigError"
                      /\ resolves[k].available = declared_names
        /\ \A k, l \in DOMAIN resolves :
              (/\ k # l
               /\ resolves[k].outcome = "instance"
               /\ resolves[l].outcome = "instance") =>
                  resolves[k].object # resolves[l].object

\* C21: classify(text) is classify_with_detectors(text, the configured
\* names in configuration order): when it returns, every configured name
\* is in exactly one of successful_detectors and failed_detectors, and
\* text_length is the length of the text.
C21_ClassifyRunsAllRegistered ==
    (rpc = "returned" /\ detector_names = available) =>
        /\ \A n \in Range(available) :
              (n \in successful_detectors) # (n \in DOMAIN failed_detectors)
        /\ text_length = text.len

\* C22: the jurisdiction detector returns the first category, in the order
\* CA, MA, NY, that has a pattern matching anywhere in the text, whichever
\* category's match stands earlier in the text; it returns detected = false
\* only when no category matches.
C22_FirstCategoryWins ==
    (dkind = "JurisdictionDetector" /\ dpc = "returned") =>
        /\ \A i \in DOMAIN Categories :
              (/\ \E m \in dtext.juris : m.code = Categories[i]
               /\ \A j \in 1..(i - 1) :
                     \A m \in dtext.juris : m.code # Categories[j]) =>
                  dresult = DetectionResult(TRUE, Categories[i])
        /\ ~dresult.detected <=> dtext.juris = {}

\* C22 witness: CA is returned for a text in which NY matches before CA.
C22_Witness ==
    /\ dkind = "JurisdictionDetector"
    /\ dpc = "returned"
    /\ dresult = DetectionResult(TRUE, "CA")
    /\ \E ny \in dtext.juris :
          /\ ny.code = "NY"
          /\ \A ca \in dtext.juris : ca.code = "CA" => ny.at < ca.at

\* C23: the lease header detector returns detected = true with the value
\* "lease" exactly when a pattern matches the first 500 characters (the
\* keyword stands as a whole word wholly inside them, the end of the window
\* closing the word), and detected = false with no value otherwise; a
\* keyword that only stands after the first 500 characters is not detected.
C23_HeaderWindowOnly ==
    (dkind = "LeaseHeaderDetector" /\ dpc = "returned") =>
        LET inHeader ==
                \E o \in dtext.lease :
                    /\ o.at + KeywordLen <= HeaderChars
                    /\ o.followed = "boundary" \/ o.at + KeywordLen = HeaderChars
        IN  /\ dresult = IF inHeader THEN DetectionResult(TRUE, "lease")
                                     ELSE DetectionResult(FALSE, NoValue)
            /\ (\A o \in dtext.lease : o.at >= HeaderChars) => ~dresult.detected

\* C23 witness: a text whose only lease keyword stands after the first 500
\* characters has been answered with detected = false.
C23_Witness ==
    /\ dkind = "LeaseHeaderDetector"
    /\ dpc = "returned"
    /\ ~dresult.detected
    /\ dtext.lease # {}
    /\ \A o \in dtext.lease : o.at >= HeaderChars /\ o.followed = "boundary"

\* C24: for both detectors, detect on None or "" returns detected = false
\* with no value and does not raise; every result returned has a non-empty
\* value when detected = true and no value when detected = false.
C24_EmptyTextNotDetected ==
    /\ (dpc \notin {"idle", "called"} /\ (~dtext.present \/ dtext.chars = 0)) =>
          /\ dpc = "returned"
          /\ dresult = DetectionResult(FALSE, NoValue)
    /\ dpc = "returned" =>
          IF dresult.detected THEN dresult.value \notin {NoValue, ""}
                              ELSE dresult.value = NoValue

\* C24 witness: a detect call on None has returned.
C24_Witness ==
    /\ dpc = "returned"
    /\ ~dtext.present
    /\ dkind \in {"LeaseHeaderDetector", "JurisdictionDetector"}


\* STOPPED with both connections released: no call is under way and neither
\* connection is held open.
stopped_and_released ==
    /\ \A t \in Tasks : pc[t] = "idle"
    /\ consumer # "started"
    /\ producer # "started"

\* A shutdown request the service itself has to carry out: start() is in
\* progress (its loop, or its finally clause), or stop() is.
shutdown_under_way == lastCall = "start" \/ pc["stopper"] # "idle"

\* C25: once a shutdown has been requested (stop() or a signal) of a service
\* whose start() or stop() is in progress, the service eventually is STOPPED
\* with both connections released, every pending await being resumed when it
\* ends.
C25_ShutdownReachesStopped ==
    (shutdown_event /\ shutdown_under_way) ~> stopped_and_released


\* position k of the batch has been published or skipped
finished(k) == k \in failed \/ \E i \in 1..Len(published) : published[i].idx = k

\* C26: the messages of a batch are handled one after another in received
\* order: when a message is handed to process_message every earlier message
\* of the batch has been published or skipped, at most one message is in
\* hand, the outbound records are in the order of their inbound messages,
\* and whenever the loop is back at its while condition, polling or pausing,
\* every message it has handled is published or skipped.
C26_HandledInReceivedOrder ==
    /\ \A j \in handled : \A k \in 1..(j - 1) : finished(k)
    /\ \A j \in handled : ~finished(j) => (j = idx /\ pc["main"] \in BatchPcs)
    /\ \A i, j \in 1..Len(published) :
          i < j => /\ published[i].idx < published[j].idx
                   /\ published[i].poll = published[j].poll
    /\ pc["main"] \in {"loop_head", "polling", "backoff"}
          => \A j \in handled : finished(j)

\* C26 witness: the next poll is pending after a batch whose two messages
\* were both published
C26_Witness ==
    /\ pc["main"] = "polling"
    /\ Len(published) = 2
    /\ handled = {1, 2}


\* C27: every message of a batch is handed to process_message exactly once:
\* a message about to be handed over has not been handed over, returned or
\* failed before; while the router classifies a message, process_message
\* has not returned or raised for it before; every position up to the
\* current one has been handed over; and at the while condition, during a
\* poll and during a backoff pause no message is in hand to be submitted
\* again.
C27_HandedOverOnce ==
    /\ pc["main"] = "message"
          => idx \notin handled \cup returned \cup failed
    /\ pc["main"] = "classifying"
          => idx \in handled /\ idx \notin returned \cup failed
    /\ pc["main"] = "publishing"
          => idx \in handled \cap returned /\ ~finished(idx)
    /\ pc["main"] \in BatchPcs => handled \cup {idx} = 1..idx
    /\ pc["main"] \in {"loop_head", "polling", "backoff"}
          => batchLen = 0 /\ message = NoMessage

\* C27 witness: a backoff pause is pending after a batch of two messages of
\* which one failed
C27_Witness ==
    /\ pc["main"] = "backoff"
    /\ handled = {1, 2}
    /\ failed # {}


\* C28: once the factory is loaded, no call of create_detector,
\* list_available_detectors or get_detector_config (returning or raising)
\* changes the descriptor list or the name-to-class table, so
\* list_available_detectors answers the loaded list every time and two
\* create_detector calls for one name end alike.
C28_RegistryReadOnly ==
    [][fpc = "loaded" =>
          /\ fpc' = "loaded"
          /\ config' = config
          /\ detector_classes' = detector_classes
          /\ answer'.call = "list_available_detectors"
                => answer'.value = source.detectors
          /\ \A k, l \in DOMAIN resolves' :
                resolves'[k].requested = resolves'[l].requested =>
                    /\ resolves'[k].outcome = resolves'[l].outcome
                    /\ resolves'[k].name = resolves'[l].name]_vars

\* C28 witness: after a create_detector that returned an instance and one
\* that raised, list_available_detectors has answered a non-empty list
C28_Witness ==
    /\ fpc = "loaded"
    /\ answer.call = "list_available_detectors"
    /\ answer.value # <<>>
    /\ \E k, l \in DOMAIN resolves :
          /\ resolves[k].outcome = "instance"
          /\ resolves[l].outcome = "ConfigError"


\* process_message has ended for an envelope that decodes and whose text is
\* empty or whitespace-only
blank_envelope_processed ==
    /\ ppc \notin {"called", "classifying"}
    /\ payload.decodable
    /\ payload.len = 0 \/ payload.blank

\* C29 as stated: an envelope whose text is empty or whitespace-only is
\* decoded, and process_message raises the ClassifierError of the router
\* (the router has been called once) and returns no message to publish.
C29_BlankFailsInRouter ==
    blank_envelope_processed =>
        /\ parse_input_message(payload).ok
        /\ ppc = "raised"
        /\ output_message = NoRequest
        /\ pcalls = [parse |-> 1, classify |-> 1]

\* C29 amended: an envelope whose text is empty or whitespace-only is
\* decoded, and process_message raises and returns no message to publish:
\* the ClassifierError of the router (called once) when the text is within
\* max_text_length, the ClassifierError of the size check (the router is
\* not called) when a whitespace-only text is longer.
C29_BlankNeverAnswered ==
    blank_envelope_processed =>
        /\ parse_input_message(payload).ok
        /\ ppc = "raised"
        /\ output_message = NoRequest
        /\ pcalls.parse = 1
        /\ pcalls.classify = IF exceeds_max_text_length(payload) THEN 0 ELSE 1

\* C29 witness: the router has rejected a whitespace-only text of one
\* character
C29_Witness ==
    /\ ppc = "raised"
    /\ payload.decodable
    /\ payload.blank
    /\ payload.len = 1
    /\ pcalls = [parse |-> 1, classify |-> 1]


\* C30: a stop() is issued on a broker connection only when no stop() of
\* that connection is pending in another task: a connection is never
\* stopped twice, also when stop() and the exit of the loop both run
\* cleanup().
C30_StoppedAtMostOnce ==
    [][/\ connStops'.consumer # connStops.consumer
            => \A t \in Tasks : pc[t] # "consumer_stop"
       /\ connStops'.producer # connStops.producer
            => \A t \in Tasks : pc[t] # "producer_stop"]_vars


\* C31: for every outcome classify_with_detectors returns, has_detections
\* is true exactly when detected_values is non-empty.
C31_HasDetectionsIffValues ==
    rpc = "returned" =>
        (has_detections(detector_results)
            <=> DOMAIN detected_values(detector_results,
                                       successful_detectors) # {})


\* C32: the lease header detector returns detected = true only for a text
\* in which the keyword stands as a complete word: a longer word that the
\* 500-character window cuts off after the keyword is no match.
C32_CompleteWordOnly ==
    (dkind = "LeaseHeaderDetector" /\ dpc = "returned" /\ dresult.detected) =>
        \E o \in dtext.lease : o.followed = "boundary"

====
